---- MODULE Spec2Model ----
(***************************************************************************)
(* Model of the classification pipeline of issue-auth-tool:                *)
(*   src/src/issues_auth_tool.py  fetch_issues_and_discussions, run        *)
(*   src/src/utils.py             validate, edit_json, rate_limit          *)
(* Spec      : one process running run() up to MaxRuns times in sequence.  *)
(* SpecRace  : Spec plus a second process creating database files.         *)
(* SpecLimit : threads calling a function decorated with rate_limit.       *)
(* SpecPipe  : run() calling get_llm_response through the limiter.         *)
(* SpecRepair: one edit_json dialog.                                       *)
(***************************************************************************)
EXTENDS Integers, Sequences, FiniteSets, TLC

(* ------------------------------ bounds --------------------------------- *)
MaxRuns == 2
MaxTime == 3
MaxCallsPerThread == 2
MaxEdits == 2

(* ------------------------- JSON values and text ------------------------ *)
\* Python None, and a local name that has not been assigned yet.
None == [none |-> TRUE]
Unbound == [unbound |-> TRUE]

\* Parsed JSON values the completion service can produce.
EmptyObj == [k \in {} |-> 0]
RecAlias == [type |-> "alias", reason |-> "r", mcp |-> <<>>]
RecOther == [type |-> "other", reason |-> "x", mcp |-> <<>>]
RecBadEnum == [type |-> "bogus", reason |-> "r", mcp |-> <<>>]
RecMissing == [type |-> "alias", reason |-> "r"]
\* A record whose reason is a string holding a lone surrogate (the JSON text
\* "\\ud83d"): json.loads accepts it and it is a string for the schema.
LoneSurrogate == "\\ud83d"
RecSurrogate == [type |-> "alias", reason |-> LoneSurrogate, mcp |-> <<>>]
JsonValues == {None, EmptyObj, RecAlias, RecOther, RecBadEnum, RecMissing,
               RecSurrogate}

\* json.dumps: the text that serialises v.  A text is either the
\* serialisation of a value or raw text that is not JSON.
dumps(v) == [json |-> v]
Garbage == [raw |-> "not json"]
EmptyText == [raw |-> ""]
Texts == {dumps(v) : v \in JsonValues} \cup {Garbage}

\* f.write(text) on a file opened with encoding='utf-8': the text of a value
\* with a lone surrogate cannot be encoded (dumps is called with
\* ensure_ascii=False) and write raises UnicodeEncodeError.
Encodable(v) == ~("reason" \in DOMAIN v /\ v.reason = LoneSurrogate)

\* json.loads: succeeds exactly on serialisations.
Parses(t) == "json" \in DOMAIN t
loads(t) == t.json

\* The 'type' schema: an object with type (enumerated), reason and mcp.
TypeEnum == {"alias", "other"}
Conforms(v) ==
  /\ DOMAIN v = {"type", "reason", "mcp"}
  /\ v.type \in TypeEnum

\* validate(instance, schema) raises ValidationError iff this is FALSE.
validate(v) == Conforms(v)

\* Python truthiness of a parsed value (None and {} are falsy).
Truthy(v) == v # None /\ DOMAIN v # {}

\* d | {'num': n}
AttachNum(d, n) == [k \in DOMAIN d \cup {"num"} |-> IF k = "num" THEN n ELSE d[k]]

(* ------------------------------- the feed ------------------------------ *)
\* Open issues in feed order (pull requests are issues with pull_request
\* set) and unanswered discussions.  Numbers are unique across both.
IssueFeed == << [num |-> 1, pr |-> FALSE], [num |-> 4, pr |-> TRUE], [num |-> 2, pr |-> FALSE] >>
DiscussionFeed == << 3 >>
PostNums == {1, 2, 3}
Workers == {"issues", "discussions"}

VARIABLES
  store,      \* database directory: num -> text of <num>.json
  types,      \* setting['type']
  runNo,      \* number of run() invocations started
  pc,         \* position of run(): idle, next, try, store, done, halted
  ignore,     \* the ignore set built in fetch_issues_and_discussions
  pending,    \* fetch workers submitted and not yet completed
  ready,      \* posts of completed workers not yet yielded
  post,       \* num of the post of the current iteration (0: none)
  ret,        \* local ret of run()
  corrected,  \* local corrected of run()
  exc,        \* exception that ended the run ("none" while running)
  startStore, \* history: store when the current run started
  classified, \* history: nums the model was invoked for in the current run
  commits,    \* history: nums written by run(), in order, over all runs
  conflicts,  \* history: nums whose exclusive create was refused
  endStores,  \* history: store at the end of each run
  last,       \* history: how the latest post was resolved
  raced       \* history: nums written by the second process

pvars == << store, types, runNo, pc, ignore, pending, ready, post, ret,
            corrected, exc, startStore, classified, commits, conflicts,
            endStores, last, raced >>

VARIABLES
  max_calls,   \* rate_limit argument
  per_seconds, \* rate_limit argument
  clock,       \* reading of time.time(), in ticks
  calls,       \* the deque of timestamps (absent when limiting is disabled)
  lock,        \* thread holding the lock (0: free)
  tpc,         \* position of each thread in wrapper
  wake,        \* clock reading at which a sleeping thread may resume
  ncalls,      \* calls of the decorated function issued by each thread
  cur,         \* history: the call in progress of each thread
  starts,      \* history: calls let through to func at each clock reading
  done         \* history: the latest completed call of each thread

lvars == << max_calls, per_seconds, clock, calls, lock, tpc, wake,
            ncalls, cur, starts, done >>

VARIABLES
  e_d,       \* edit_json argument d
  e_text,    \* text_area.text
  e_status,  \* status_label: "valid", or the name of the error shown
  e_state,   \* closed (not called), open, returned, raised
  e_result,  \* value returned or exception raised by edit_json
  e_how,     \* key that ended the dialog: none, save, cancel
  e_trail    \* history: the statuses shown, from the initial text on

evars == << e_d, e_text, e_status, e_state, e_result, e_how, e_trail >>

vars == << pvars, lvars, evars >>

NoLast == [num |-> 0, cause |-> "none", text |-> EmptyText, prompted |-> FALSE,
           answer |-> "none", edit |-> "none", edited |-> EmptyText,
           fate |-> "none"]

PipelineInit ==
  /\ store = [n \in {} |-> EmptyText]
  /\ types \in {{"issues", "discussions"}, {"issues"}, {"discussions"}}
  /\ runNo = 0
  /\ pc = "idle"
  /\ ignore = {}
  /\ pending = {}
  /\ ready = << >>
  /\ post = 0
  /\ ret = None
  /\ corrected = Unbound
  /\ exc = "none"
  /\ startStore = store
  /\ classified = {}
  /\ commits = << >>
  /\ conflicts = {}
  /\ endStores = << >>
  /\ last = NoLast
  /\ raced = {}

(* --------------------- fetch_issues_and_discussions -------------------- *)
\* Variant that does not consult the ignore set.
iter_issues_unfiltered(ign) ==
  LET keep(i) == ~i.pr
      kept == SelectSeq(IssueFeed, keep)
  IN [k \in 1..Len(kept) |-> kept[k].num]

\* list(iter_issues()): skip pull requests and ignored numbers.
iter_issues(ign) ==
  LET keep(i) == ~i.pr /\ i.num \notin ign
      kept == SelectSeq(IssueFeed, keep)
  IN [k \in 1..Len(kept) |-> kept[k].num]

\* Variant that does not consult the ignore set.
iter_discussions_unfiltered(ign) == DiscussionFeed

\* list(iter_discussions()): skip ignored numbers.
iter_discussions(ign) ==
  LET keep(d) == d \notin ign
  IN SelectSeq(DiscussionFeed, keep)

\* run() lines 142-143 and the head of the generator: the ignore set is the
\* set of stems of database/*.json; one worker is submitted per type.
RunStart ==
  /\ pc \in {"idle", "done", "halted"}
  /\ runNo < MaxRuns
  /\ runNo' = runNo + 1
  /\ ignore' = DOMAIN store
  /\ pending' = types
  /\ ready' = << >>
  /\ pc' = "next"
  /\ post' = 0
  /\ ret' = None
  /\ corrected' = Unbound
  /\ exc' = "none"
  /\ startStore' = store
  /\ classified' = {}
  /\ last' = NoLast
  /\ UNCHANGED << store, types, commits, conflicts, endStores, raced >>
  /\ UNCHANGED lvars
  /\ UNCHANGED evars

\* A fetch worker completes; as_completed hands its list to the generator.
WorkerDone(w) ==
  /\ pc \in {"next", "try", "store"}
  /\ w \in pending
  /\ pending' = pending \ {w}
  /\ ready' = ready \o (IF w = "issues" THEN iter_issues(ignore)
                                        ELSE iter_discussions(ignore))
  /\ UNCHANGED << store, types, runNo, pc, ignore, post, ret, corrected, exc,
                  startStore, classified, commits, conflicts, endStores,
                  last, raced >>
  /\ UNCHANGED lvars
  /\ UNCHANGED evars

(* ------------------------------ edit_json ------------------------------ *)
\* What the operator does to end the edit dialog.
EditActions == {[act |-> "cancel"]} \cup {[act |-> "save", text |-> t] : t \in Texts}

\* formatter(e, instance) is called with one argument on line 136.
FormatterCall == "TypeError"

\* edit_json lines 125-140: what the call yields once the dialog has ended.
EditJsonResult(ed) ==
  IF ed.act = "cancel" THEN [kind |-> "none"]
  ELSE IF ~Parses(ed.text) THEN [kind |-> "none"]
  ELSE IF ~validate(loads(ed.text)) THEN [kind |-> "raise", exc |-> FormatterCall]
  ELSE [kind |-> "value", value |-> loads(ed.text)]

\* Variant that reports valid for every text that parses.
on_text_changed_syntax(t) ==
  IF ~Parses(t) THEN "JSONDecodeError" ELSE "valid"

\* on_text_changed, lines 92-105: the status shown for the text t.
on_text_changed(t) ==
  IF ~Parses(t) THEN "JSONDecodeError"
  ELSE IF ~validate(loads(t)) THEN "ValidationError"
  ELSE "valid"

EditorClosed ==
  /\ e_d = None
  /\ e_text = EmptyText
  /\ e_status = "none"
  /\ e_state = "closed"
  /\ e_result = None
  /\ e_how = "none"
  /\ e_trail = << >>

\* edit_json lines 76-124: the dialog opens on the pretty-printed argument
\* and the status is computed once for the initial text (line 116).
EditorInit ==
  /\ e_d \in JsonValues
  /\ e_text = dumps(e_d)
  /\ e_status = on_text_changed(e_text)
  /\ e_state = "open"
  /\ e_result = None
  /\ e_how = "none"
  /\ e_trail = << e_status >>

\* The operator changes the text; text_area.buffer.on_text_changed fires.
EditText(t) ==
  /\ e_state = "open"
  /\ Len(e_trail) <= MaxEdits
  /\ t # e_text
  /\ e_text' = t
  /\ e_status' = on_text_changed(t)
  /\ e_trail' = Append(e_trail, e_status')
  /\ UNCHANGED << e_d, e_state, e_result, e_how >>
  /\ UNCHANGED << pvars, lvars >>

\* Ctrl-S (lines 88-90), then lines 125-140 on the text of the dialog.
Save ==
  /\ e_state = "open"
  /\ LET r == EditJsonResult([act |-> "save", text |-> e_text]) IN
       /\ e_state' = IF r.kind = "raise" THEN "raised" ELSE "returned"
       /\ e_result' = CASE r.kind = "raise" -> [raised |-> r.exc]
                         [] r.kind = "value" -> r.value
                         [] OTHER -> None
  /\ e_how' = "save"
  /\ UNCHANGED << e_d, e_text, e_status, e_trail >>
  /\ UNCHANGED << pvars, lvars >>

\* Esc or Ctrl-Q (lines 109-112), then lines 127-128.
Cancel ==
  /\ e_state = "open"
  /\ LET r == EditJsonResult([act |-> "cancel"]) IN
       /\ e_state' = IF r.kind = "raise" THEN "raised" ELSE "returned"
       /\ e_result' = CASE r.kind = "raise" -> [raised |-> r.exc]
                         [] r.kind = "value" -> r.value
                         [] OTHER -> None
  /\ e_how' = "cancel"
  /\ UNCHANGED << e_d, e_text, e_status, e_trail >>
  /\ UNCHANGED << pvars, lvars >>

(* --------------------------------- run --------------------------------- *)
\* What get_llm_response yields to run(): a text, or a provider error.
LlmOutcomes == {[kind |-> "text", text |-> t] : t \in Texts}
                 \cup {[kind |-> "raise", exc |-> "APIError"]}

\* Lines 146-151: the value left in ret and the exception raised, if any.
TryBody(out, n) ==
  IF out.kind = "raise" THEN [ret |-> None, raised |-> out.exc]
  ELSE IF ~Parses(out.text) THEN [ret |-> None, raised |-> "JSONDecodeError"]
  ELSE IF ~validate(loads(out.text))
    THEN [ret |-> loads(out.text), raised |-> "ValidationError"]
  ELSE [ret |-> AttachNum(loads(out.text), n), raised |-> "none"]

\* Line 19 binds DecodeError with a `type` statement: the name denotes a
\* type-alias object, which is neither an exception class nor a tuple of
\* exception classes.
DecodeErrorIsClass == FALSE

\* Line 152, `except DecodeError as e`, evaluated for a raised exception e:
\* matching against an object that is not an exception class raises
\* TypeError in place of e.
ExceptDecodeError(e) ==
  IF DecodeErrorIsClass
    THEN (IF e \in {"JSONDecodeError", "ValidationError"} THEN "caught" ELSE e)
    ELSE "TypeError"

\* Lines 153-166, the body of the except clause.
Handler(e, r, n, corr, answer, ed) ==
  IF answer = "n" THEN [next |-> "store", corrected |-> corr, exc |-> "none"]
  ELSE LET c == EditJsonResult(ed) IN
    CASE c.kind = "raise" -> [next |-> "halted", corrected |-> corr, exc |-> c.exc]
      [] c.kind = "value" ->
           [next |-> "store", corrected |-> AttachNum(c.value, n), exc |-> "none"]
      [] OTHER ->
           \* line 165 reads e.message, which JSONDecodeError does not have
           IF e = "JSONDecodeError"
             THEN [next |-> "halted", corrected |-> corr, exc |-> "AttributeError"]
             ELSE [next |-> "next", corrected |-> corr, exc |-> "none"]

\* The generator yields the next post; line 145.
NextPost ==
  /\ pc = "next"
  /\ ready # << >>
  /\ post' = Head(ready)
  /\ ready' = Tail(ready)
  /\ ret' = None
  /\ pc' = "try"
  /\ UNCHANGED << store, types, runNo, ignore, pending, corrected, exc,
                  startStore, classified, commits, conflicts, endStores,
                  last, raced >>
  /\ UNCHANGED lvars
  /\ UNCHANGED evars

\* Lines 146-166: the try statement of one iteration, for the outcomes
\* outs of the call of get_llm_response on line 147.
ClassifyBody(outs) ==
  /\ pc = "try"
  /\ \E out \in outs :
     LET t == TryBody(out, post)
         m == IF t.raised = "none" THEN "none" ELSE ExceptDecodeError(t.raised)
     IN
     \* the prompt of line 153 and the dialog of line 160 exist only in the
     \* except body
     \E answer \in (IF m = "caught" THEN {"n", "y"} ELSE {"none"}) :
     \E ed \in (IF answer = "y" THEN EditActions ELSE {[act |-> "none"]}) :
       LET h == IF m = "caught"
                  THEN Handler(t.raised, t.ret, post, corrected, answer, ed)
                  ELSE IF m = "none"
                    THEN [next |-> "store", corrected |-> corrected, exc |-> "none"]
                    ELSE [next |-> "halted", corrected |-> corrected, exc |-> m]
           edited == m = "caught" /\ answer = "y"
       IN /\ ret' = t.ret
          /\ corrected' = h.corrected
          /\ pc' = h.next
          /\ exc' = h.exc
          /\ classified' = classified \cup {post}
          /\ endStores' = IF h.next = "halted" THEN Append(endStores, store)
                                                ELSE endStores
          /\ last' = [num |-> post,
                      cause |-> t.raised,
                      text |-> IF out.kind = "text" THEN out.text ELSE EmptyText,
                      prompted |-> m = "caught",
                      answer |-> IF m = "caught" THEN answer ELSE "none",
                      edit |-> IF edited THEN ed.act ELSE "none",
                      edited |-> IF edited /\ ed.act = "save" THEN ed.text
                                                               ELSE EmptyText,
                      fate |-> CASE h.next = "halted" -> "halted"
                                 [] h.next = "next" -> "dropped"
                                 [] OTHER -> "storing"]
  /\ UNCHANGED << store, types, runNo, ignore, pending, ready, post,
                  startStore, commits, conflicts, raced >>

\* One iteration with get_llm_response taken as a whole.
Classify ==
  /\ ClassifyBody(LlmOutcomes)
  /\ UNCHANGED lvars
  /\ UNCHANGED evars

\* Variant opening with mode 'w': never refused.
ExclusiveCreate_overwrite(dir, n) == TRUE

\* Lines 170-174: open(db_path / '<num>.json', 'x') on the directory dir.
\* Exclusive create: refused when the file exists.
ExclusiveCreate(dir, n) == n \notin DOMAIN dir

\* Lines 167-177: create the file and write the record.
StoreStep ==
  /\ pc = "store"
  /\ IF ~ExclusiveCreate(store, post)
       THEN \* FileExistsError, suppressed on line 169
            /\ conflicts' = conflicts \cup {post}
            /\ last' = [last EXCEPT !.fate = "conflict"]
            /\ pc' = "next"
            /\ UNCHANGED << store, commits, exc, endStores >>
       ELSE IF ret = None
         THEN \* line 175: nothing is written to the created file
              /\ store' = (post :> EmptyText) @@ store
              /\ commits' = Append(commits, post)
              /\ last' = [last EXCEPT !.fate = "emptyfile"]
              /\ pc' = "next"
              /\ UNCHANGED << conflicts, exc, endStores >>
       ELSE IF ~Truthy(ret) /\ corrected = Unbound
         THEN \* line 176: `ret or corrected` reads an unassigned local
              /\ store' = (post :> EmptyText) @@ store
              /\ commits' = Append(commits, post)
              /\ last' = [last EXCEPT !.fate = "halted"]
              /\ pc' = "halted"
              /\ exc' = "UnboundLocalError"
              /\ endStores' = Append(endStores, store')
              /\ UNCHANGED conflicts
       ELSE IF ~Encodable(IF Truthy(ret) THEN ret ELSE corrected)
         THEN \* line 176: f.write raises, the created file stays empty
              /\ store' = (post :> EmptyText) @@ store
              /\ commits' = Append(commits, post)
              /\ last' = [last EXCEPT !.fate = "halted"]
              /\ pc' = "halted"
              /\ exc' = "UnicodeEncodeError"
              /\ endStores' = Append(endStores, store')
              /\ UNCHANGED conflicts
       ELSE /\ store' = (post :> dumps(IF Truthy(ret) THEN ret ELSE corrected)) @@ store
            /\ commits' = Append(commits, post)
            /\ last' = [last EXCEPT !.fate = "committed"]
            /\ pc' = "next"
            /\ UNCHANGED << conflicts, exc, endStores >>
  /\ UNCHANGED << types, runNo, ignore, pending, ready, post, ret, corrected,
                  startStore, classified, raced >>
  /\ UNCHANGED lvars
  /\ UNCHANGED evars

\* The generator is exhausted: run() returns.
RunEnd ==
  /\ pc = "next"
  /\ ready = << >>
  /\ pending = {}
  /\ pc' = "done"
  /\ endStores' = Append(endStores, store)
  /\ UNCHANGED << store, types, runNo, ignore, pending, ready, post, ret,
                  corrected, exc, startStore, classified, commits, conflicts,
                  last, raced >>
  /\ UNCHANGED lvars
  /\ UNCHANGED evars

\* A second process running the same program creates the file of a post.
RacePut(n, v) ==
  /\ ExclusiveCreate(store, n)
  /\ store' = (n :> IF Encodable(v) THEN dumps(AttachNum(v, n)) ELSE EmptyText)
                @@ store
  /\ raced' = raced \cup {n}
  /\ UNCHANGED << types, runNo, pc, ignore, pending, ready, post, ret,
                  corrected, exc, startStore, classified, commits, conflicts,
                  endStores, last >>
  /\ UNCHANGED lvars
  /\ UNCHANGED evars

(* ------------------------------ rate_limit ----------------------------- *)
Threads == {1, 2}
MaxCallsChoices == {0, 1, 2}
Windows == {2}
\* time.sleep(1) on line 193
Backoff == 1
\* What one execution of the wrapped function yields.
FuncOutcomes == {"ok", "err429", "errOther"}

NoCall == [issued |-> -1, delay |-> -1, attempts |-> 0, first_out |-> "none"]
NoDone == [delay |-> -1, attempts |-> 0, first_out |-> "none", result |-> "none"]

LimiterIdle ==
  /\ max_calls = 0
  /\ per_seconds \in Windows
  /\ clock = 0
  /\ calls = << >>
  /\ lock = 0
  /\ tpc = [t \in Threads |-> "idle"]
  /\ wake = [t \in Threads |-> 0]
  /\ ncalls = [t \in Threads |-> 0]
  /\ cur = [t \in Threads |-> NoCall]
  /\ starts = [c \in 0..MaxTime |-> 0]
  /\ done = [t \in Threads |-> NoDone]

LimiterInit ==
  /\ max_calls \in MaxCallsChoices
  /\ per_seconds \in Windows
  /\ clock = 0
  /\ calls = << >>
  /\ lock = 0
  /\ tpc = [t \in Threads |-> "idle"]
  /\ wake = [t \in Threads |-> 0]
  /\ ncalls = [t \in Threads |-> 0]
  /\ cur = [t \in Threads |-> NoCall]
  /\ starts = [c \in 0..MaxTime |-> 0]
  /\ done = [t \in Threads |-> NoDone]

\* Variant that treats only negative values as disabled.
Bypass_strict(m) == m < 0

\* Line 151: limiting is disabled and the decorator returns func itself.
Bypass(m) == m <= 0

\* Lines 169 and 180: is the timestamp ts outside the window at reading n?
Expired(n, ts, per) == n - ts > per

\* Lines 169-170 and 180-181: drop the expired timestamps from the left.
RECURSIVE Prune(_, _, _)
Prune(c, n, per) ==
  IF c # << >> /\ Expired(n, Head(c), per) THEN Prune(Tail(c), n, per) ELSE c

\* Variant that never recognises the indicator.
IsRateLimitError_never(o) == FALSE

\* Variant that takes every error for a rate-limit error.
IsRateLimitError_any(o) == o # "ok"

\* Line 192: does the error text carry a rate-limit indicator?
IsRateLimitError(o) == o = "err429"

\* Entry of the decorated function.  When limiting is disabled the
\* decorated function is func, which starts at once.
Enter(t) ==
  /\ tpc[t] = "idle"
  /\ done' = [done EXCEPT ![t] = NoDone]
  /\ IF Bypass(max_calls)
       THEN /\ tpc' = [tpc EXCEPT ![t] = "running"]
            /\ cur' = [cur EXCEPT ![t] = [issued |-> clock, delay |-> 0,
                                          attempts |-> 1, first_out |-> "none"]]
            /\ starts' = [starts EXCEPT ![clock] = @ + 1]
       ELSE /\ tpc' = [tpc EXCEPT ![t] = "acquire"]
            /\ cur' = [cur EXCEPT ![t] = [issued |-> clock, delay |-> -1,
                                          attempts |-> 0, first_out |-> "none"]]
            /\ UNCHANGED starts
  /\ UNCHANGED << max_calls, per_seconds, clock, calls, lock, wake >>

\* A thread calls the decorated function.
Call(t) ==
  /\ ncalls[t] < MaxCallsPerThread
  /\ ncalls' = [ncalls EXCEPT ![t] = @ + 1]
  /\ Enter(t)
  /\ UNCHANGED pvars
  /\ UNCHANGED evars

\* run() on line 147: get_llm_response is the decorated function, called
\* once by the main thread for the post of the iteration.
AskModel ==
  /\ pc = "try"
  /\ done[1].result = "none"
  /\ Enter(1)
  /\ UNCHANGED ncalls
  /\ UNCHANGED pvars
  /\ UNCHANGED evars

\* What run() receives from a completed call of the decorated function.
Received(result) ==
  IF result = "ok" THEN {[kind |-> "text", text |-> t] : t \in Texts}
                   ELSE {[kind |-> "raise", exc |-> "APIError"]}

\* Lines 147-166 once the call of line 147 has completed.
ClassifyReturn ==
  /\ tpc[1] = "idle"
  /\ done[1].result # "none"
  /\ ClassifyBody(Received(done[1].result))
  /\ done' = [done EXCEPT ![1] = NoDone]
  /\ UNCHANGED << max_calls, per_seconds, clock, calls, lock, tpc, wake,
                  ncalls, cur, starts >>
  /\ UNCHANGED evars

\* Variant of a lock that is granted while another thread holds it.
CanAcquire_always(l) == TRUE

\* threading.Lock (line 160): acquire succeeds only while no thread holds it.
CanAcquire(l) == l = 0

\* Line 166: `with lock`.
Acquire(t) ==
  /\ tpc[t] = "acquire"
  /\ CanAcquire(lock)
  /\ lock' = t
  /\ tpc' = [tpc EXCEPT ![t] = "locked"]
  /\ UNCHANGED << max_calls, per_seconds, clock, calls, wake, ncalls, cur,
                  starts, done >>
  /\ UNCHANGED pvars
  /\ UNCHANGED evars

\* Lines 167-176: prune, then wait for the oldest timestamp to leave the
\* window when the ledger is full.
Bookkeep(t) ==
  /\ tpc[t] = "locked"
  /\ LET c == Prune(calls, clock, per_seconds) IN
       IF Len(c) >= max_calls
         THEN IF c = << >>
           THEN \* calls[0] on an empty deque: IndexError leaves the with block
                /\ calls' = c
                /\ lock' = 0
                /\ tpc' = [tpc EXCEPT ![t] = "idle"]
                /\ cur' = [cur EXCEPT ![t] = NoCall]
                /\ done' = [done EXCEPT ![t] =
                              [delay |-> -1, attempts |-> 0,
                               first_out |-> "none", result |-> "IndexError"]]
                /\ UNCHANGED wake
           ELSE LET sleep_for == per_seconds - (clock - Head(c)) IN
                IF sleep_for > 0
                  THEN /\ calls' = c
                       /\ wake' = [wake EXCEPT ![t] = clock + sleep_for]
                       /\ tpc' = [tpc EXCEPT ![t] = "sleeping"]
                       /\ UNCHANGED << lock, cur, done >>
                  ELSE \* lines 179-181 prune again at the same reading
                       /\ calls' = c
                       /\ tpc' = [tpc EXCEPT ![t] = "append"]
                       /\ UNCHANGED << lock, wake, cur, done >>
         ELSE /\ calls' = c
              /\ tpc' = [tpc EXCEPT ![t] = "append"]
              /\ UNCHANGED << lock, wake, cur, done >>
  /\ UNCHANGED << max_calls, per_seconds, clock, ncalls, starts >>
  /\ UNCHANGED pvars
  /\ UNCHANGED evars

\* Lines 176-181: time.sleep(sleep_for) returns, no earlier than asked;
\* the expired timestamps are pruned again.
Wake(t) ==
  /\ tpc[t] = "sleeping"
  /\ clock >= wake[t]
  /\ wake' = [wake EXCEPT ![t] = 0]
  /\ calls' = Prune(calls, clock, per_seconds)
  /\ tpc' = [tpc EXCEPT ![t] = "append"]
  /\ UNCHANGED << max_calls, per_seconds, clock, lock, ncalls, cur, starts,
                  done >>
  /\ UNCHANGED pvars
  /\ UNCHANGED evars

\* Line 183 and the end of the with block.
Record(t) ==
  /\ tpc[t] = "append"
  /\ calls' = Append(calls, clock)
  /\ starts' = [starts EXCEPT ![clock] = @ + 1]
  /\ lock' = 0
  /\ tpc' = [tpc EXCEPT ![t] = "invoke"]
  /\ UNCHANGED << max_calls, per_seconds, clock, wake, ncalls, cur, done >>
  /\ UNCHANGED pvars
  /\ UNCHANGED evars

\* Line 188: func starts.
Invoke(t) ==
  /\ tpc[t] = "invoke"
  /\ cur' = [cur EXCEPT ![t].attempts = @ + 1,
                        ![t].delay = IF cur[t].attempts = 0
                                       THEN clock - cur[t].issued ELSE @]
  /\ tpc' = [tpc EXCEPT ![t] = "running"]
  /\ UNCHANGED << max_calls, per_seconds, clock, calls, lock, wake, ncalls,
                  starts, done >>
  /\ UNCHANGED pvars
  /\ UNCHANGED evars

\* Lines 188-195: func returns or raises.
Return(t, o) ==
  /\ tpc[t] = "running"
  /\ LET first == IF cur[t].first_out = "none" THEN o ELSE cur[t].first_out IN
     IF ~Bypass(max_calls) /\ IsRateLimitError(o)
       THEN /\ tpc' = [tpc EXCEPT ![t] = "backoff"]
            /\ wake' = [wake EXCEPT ![t] = clock + Backoff]
            /\ cur' = [cur EXCEPT ![t].first_out = first]
            /\ UNCHANGED done
       ELSE /\ tpc' = [tpc EXCEPT ![t] = "idle"]
            /\ done' = [done EXCEPT ![t] =
                          [delay |-> cur[t].delay, attempts |-> cur[t].attempts,
                           first_out |-> first, result |-> o]]
            /\ cur' = [cur EXCEPT ![t] = NoCall]
            /\ UNCHANGED wake
  /\ UNCHANGED << max_calls, per_seconds, clock, calls, lock, ncalls, starts >>
  /\ UNCHANGED pvars
  /\ UNCHANGED evars

\* Variant in which a retry goes through the limiting again.
RetryTarget_relimit == "acquire"

\* Line 194: `continue` resumes the `while True` of line 186, which lies
\* after the with block.
RetryTarget == "invoke"

\* Lines 193-194: time.sleep(1) returns; the loop invokes func again.
BackoffOver(t) ==
  /\ tpc[t] = "backoff"
  /\ clock >= wake[t]
  /\ wake' = [wake EXCEPT ![t] = 0]
  /\ tpc' = [tpc EXCEPT ![t] = RetryTarget]
  /\ UNCHANGED << max_calls, per_seconds, clock, calls, lock, ncalls, cur,
                  starts, done >>
  /\ UNCHANGED pvars
  /\ UNCHANGED evars

\* Time passes.
Tick ==
  /\ clock < MaxTime
  /\ clock' = clock + 1
  /\ UNCHANGED << max_calls, per_seconds, calls, lock, tpc, wake, ncalls, cur,
                  starts, done >>
  /\ UNCHANGED pvars
  /\ UNCHANGED evars

(* ---------------------------- specifications --------------------------- *)
Init == PipelineInit /\ LimiterIdle /\ EditorClosed

Next ==
  \/ RunStart
  \/ \E w \in Workers : WorkerDone(w)
  \/ NextPost
  \/ Classify
  \/ StoreStep
  \/ RunEnd

Spec == Init /\ [][Next]_vars

NextRace ==
  \/ Next
  \/ \E n \in PostNums, v \in {x \in JsonValues : validate(x)} : RacePut(n, v)

SpecRace == Init /\ [][NextRace]_vars

InitLimit ==
  /\ PipelineInit
  /\ types = {"issues", "discussions"}
  /\ LimiterInit
  /\ EditorClosed

NextLimit ==
  \/ \E t \in Threads : Call(t)
  \/ \E t \in Threads : Acquire(t)
  \/ \E t \in Threads : Bookkeep(t)
  \/ \E t \in Threads : Wake(t)
  \/ \E t \in Threads : Record(t)
  \/ \E t \in Threads : Invoke(t)
  \/ \E t \in Threads, o \in FuncOutcomes : Return(t, o)
  \/ \E t \in Threads : BackoffOver(t)
  \/ Tick

SpecLimit == InitLimit /\ [][NextLimit]_vars

\* run() with get_llm_response behind the limiter (line 122), limiting on.
InitPipe ==
  /\ PipelineInit
  /\ types = {"issues", "discussions"}
  /\ LimiterInit
  /\ ~Bypass(max_calls)
  /\ EditorClosed

NextPipe ==
  \/ RunStart
  \/ \E w \in Workers : WorkerDone(w)
  \/ NextPost
  \/ AskModel
  \/ Acquire(1)
  \/ Bookkeep(1)
  \/ Wake(1)
  \/ Record(1)
  \/ Invoke(1)
  \/ \E o \in FuncOutcomes : Return(1, o)
  \/ BackoffOver(1)
  \/ Tick
  \/ ClassifyReturn
  \/ StoreStep
  \/ RunEnd

SpecPipe == InitPipe /\ [][NextPipe]_vars

InitRepair ==
  /\ PipelineInit
  /\ types = {"issues", "discussions"}
  /\ LimiterIdle
  /\ EditorInit

NextRepair ==
  \/ \E t \in Texts : EditText(t)
  \/ Save
  \/ Cancel

SpecRepair == InitRepair /\ [][NextRepair]_vars

(* -------------------------------- claims ------------------------------- *)
\* The entry of post n is the text of the record v with the field num = n.
IsStored(n, v) ==
  /\ n \in DOMAIN store
  /\ Parses(store[n])
  /\ LET s == loads(store[n]) IN
       /\ DOMAIN s = (DOMAIN v) \cup {"num"}
       /\ s.num = n
       /\ \A k \in (DOMAIN v) \ {"num"} : s[k] = v[k]

\* The text is a record of the three schema fields that validates, plus num = n.
HoldsValidated(text, n) ==
  /\ Parses(text)
  /\ LET s == loads(text) IN
       /\ DOMAIN s = {"type", "reason", "mcp", "num"}
       /\ s.num = n
       /\ validate([k \in {"type", "reason", "mcp"} |-> s[k]])

NoDuplicates(s) == \A i, j \in DOMAIN s : i # j => s[i] # s[j]

\* The nums the feed offers for the configured types, before the ignore set.
FeedNums ==
  (IF "issues" \in types
     THEN {IssueFeed[i].num : i \in {j \in DOMAIN IssueFeed : ~IssueFeed[j].pr}}
     ELSE {})
  \cup (IF "discussions" \in types
          THEN {DiscussionFeed[i] : i \in DOMAIN DiscussionFeed} ELSE {})

\* C1: in every reachable state every store entry holds a complete record
\* that passed validation against the schema, with its num attached; no
\* entry is empty, partial or schema-rejected.
C1_EntriesValidated == \A n \in DOMAIN store : HoldsValidated(store[n], n)

\* C2: store writes are write-once: an existing entry never changes; a write
\* attempt for an existing num is refused, ignored, and the run goes on to
\* the next post; a write for an unused num creates the entry.
C2_WriteOnce ==
  [][ /\ \A n \in DOMAIN store : n \in DOMAIN store' /\ store'[n] = store[n]
      /\ (pc = "store" /\ pc' # "store") =>
           IF post \in DOMAIN store
             THEN store' = store /\ pc' = "next" /\ exc' = "none"
             ELSE post \in DOMAIN store' ]_vars

\* The run tried to write a post that the second process had written with a
\* different record, and was refused.
C2_Witness ==
  /\ last.fate = "conflict"
  /\ pc = "next"
  /\ post \in raced
  /\ post \in DOMAIN store
  /\ store[post] # dumps(ret)

\* C3 as stated: two runs in sequence commit no num twice and the store after
\* the second run equals the store after the first.
C3_Idempotent ==
  /\ NoDuplicates(commits)
  /\ (Len(endStores) >= 2 => endStores[2] = endStores[1])

\* C3 amended: no num is committed twice; a later run neither classifies nor
\* changes a post that had an entry after the run before it, so the store
\* after a run contains the store after the run before, and equals it when
\* the run before left no post of the feed without an entry.
C3_SecondRunExtends ==
  /\ NoDuplicates(commits)
  /\ \A i \in 1..(Len(endStores) - 1) :
       LET a == endStores[i]
           b == endStores[i + 1]
       IN /\ \A n \in DOMAIN a : n \in DOMAIN b /\ b[n] = a[n]
          /\ (FeedNums \subseteq DOMAIN a => b = a)
  /\ (runNo >= 2 => classified \cap DOMAIN endStores[runNo - 1] = {})

\* The second run has ended with more entries than the first run left.
C3_Witness ==
  /\ Len(endStores) >= 2
  /\ DOMAIN endStores[1] # {}
  /\ endStores[2] # endStores[1]

\* C4: a run never invokes the model for a post whose num had a store entry
\* when the run started: the ignore set is the set of nums in the store at
\* run start and no worker yields a num of that set.
C4_NeverReclassifies ==
  /\ (runNo >= 1 => ignore = DOMAIN startStore)
  /\ classified \cap DOMAIN startStore = {}
  /\ \A i \in DOMAIN ready : ready[i] \notin DOMAIN startStore
  /\ (pc \in {"try", "store"} => post \notin DOMAIN startStore)

\* A later run started with entries in the store, both workers have
\* completed and the run has classified a post.
C4_Witness ==
  /\ runNo >= 2
  /\ DOMAIN startStore # {}
  /\ types = {"issues", "discussions"}
  /\ pending = {}
  /\ classified # {}

\* C5: when the model text of post n parses and validates as r, the post is
\* committed without a prompt and the entry of n is r with num = n added.
C5_ValidCommitted ==
  (last.num # 0 /\ last.cause = "none") =>
    /\ ~last.prompted
    /\ last.fate \in {"storing", "committed"}
    /\ (pc # "store" =>
          /\ last.fate = "committed"
          /\ IsStored(last.num, loads(last.text)))

\* C6 as stated: after unparseable model text the post is Invalid with no
\* candidate (the operator is prompted); if the operator edits and saves a
\* schema-valid record r, the post is committed as r with num added.
C6_DecodeErrorRepaired ==
  (last.num # 0 /\ last.cause = "JSONDecodeError") =>
    /\ last.prompted
    /\ ret = None
    /\ ((/\ last.edit = "save"
         /\ Parses(last.edited)
         /\ validate(loads(last.edited))
         /\ pc # "store") =>
          /\ last.fate = "committed"
          /\ IsStored(last.num, loads(last.edited)))

\* C7 as stated: after a schema rejection, when the operator opts to edit
\* and cancels, the post is dropped, the run goes on and no entry exists.
C7_CancelDrops ==
  (last.num # 0 /\ last.cause = "ValidationError") =>
    /\ last.prompted
    /\ ((last.answer = "y" /\ last.edit = "cancel") =>
          /\ last.fate = "dropped"
          /\ pc # "halted"
          /\ last.num \notin DOMAIN store)

\* C8 as stated: when a post is Invalid and the operator declines to edit,
\* the post is dropped and the store gets no entry for it.
C8_DeclineDrops ==
  (last.num # 0 /\ last.cause \in {"JSONDecodeError", "ValidationError"}) =>
    /\ last.prompted
    /\ (last.answer = "n" =>
          /\ last.fate = "dropped"
          /\ pc # "halted"
          /\ last.num \notin DOMAIN store)

\* Number of calls let through to func at the clock readings lo..hi.
RECURSIVE StartsIn(_, _)
StartsIn(lo, hi) ==
  IF lo > hi \/ lo > MaxTime THEN 0 ELSE starts[lo] + StartsIn(lo + 1, hi)

\* C9 as stated: with max_calls > 0, in any window of per_seconds at most
\* max_calls calls start (a call counted at the reading at which the wrapper
\* lets it through to its first invocation; retries are not counted).
C9_WindowLimit ==
  max_calls > 0 =>
    \A c \in 0..MaxTime : StartsIn(c, c + per_seconds - 1) <= max_calls

\* C10: with max_calls = 0 the decorated function is the wrapped function:
\* no ledger, no lock, no sleep, one execution per call, started when the
\* call is issued, and its result or error is what the caller gets.
C10_DisabledPassThrough ==
  max_calls = 0 =>
    /\ calls = << >>
    /\ lock = 0
    /\ \A t \in Threads :
         /\ tpc[t] \in {"idle", "running"}
         /\ wake[t] = 0
         /\ (tpc[t] = "running" => cur[t].delay = 0 /\ cur[t].attempts = 1)
         /\ (done[t] # NoDone =>
               /\ done[t].delay = 0
               /\ done[t].attempts = 1
               /\ done[t].result \in FuncOutcomes
               /\ done[t].result = done[t].first_out)

\* Limiting is disabled, a call has raised a rate-limit error to its caller
\* and another thread's call is executing.
C10_Witness ==
  /\ max_calls = 0
  /\ \E t, u \in Threads :
       /\ t # u
       /\ done[t] # NoDone
       /\ done[t].result = "err429"
       /\ tpc[u] = "running"

\* C11 as stated: a save returns the parsed record of the current text,
\* whether or not it validates; it never returns nothing and never raises
\* for text that parses.
C11_SaveReturnsParsed ==
  (e_how = "save" /\ Parses(e_text)) =>
    /\ e_state = "returned"
    /\ e_result = loads(e_text)

\* C19: while the dialog is open the status shows valid exactly when the
\* text parses and the parsed value validates, from the initial text on and
\* after every edit; only save and cancel end the dialog.
C19_StatusReflectsValidity ==
  /\ (e_state = "open" =>
        /\ e_how = "none"
        /\ e_trail # << >>
        /\ e_status = e_trail[Len(e_trail)]
        /\ (e_status = "valid") <=> (Parses(e_text) /\ Conforms(loads(e_text)))
        /\ e_status \in {"valid", "ValidationError", "JSONDecodeError"})
  /\ (e_state \in {"returned", "raised"} => e_how \in {"save", "cancel"})

\* The text was valid, an edit made it invalid and a second edit fixed it,
\* with the dialog still open.
C19_Witness ==
  /\ e_state = "open"
  /\ Len(e_trail) = 3
  /\ e_trail[1] = "valid"
  /\ e_trail[2] # "valid"
  /\ e_trail[3] = "valid"
  /\ e_status = "valid"

\* C12 as stated: for every max_calls, 0 included, the caller of the
\* rate-limited function never receives an error that carries a rate-limit
\* indicator.
C12_NeverSurfaces ==
  \A t \in Threads : done[t].result # "err429"

\* C12 amended: with max_calls > 0 an error with the indicator never reaches
\* the caller, a call that met one was executed again and ended with a
\* return or with a different error; with max_calls <= 0 the caller gets
\* the outcome of the single execution, the rate-limit error included.
C12_RetriedWhenLimited ==
  \A t \in Threads :
    done[t].result # "none" /\ done[t].result # "IndexError" =>
      IF max_calls > 0
        THEN /\ done[t].result \in {"ok", "errOther"}
             /\ (done[t].first_out = "err429" => done[t].attempts >= 2)
        ELSE /\ done[t].attempts = 1
             /\ done[t].result = done[t].first_out

\* With limiting on, a call whose first execution failed with the indicator
\* has returned normally.
C12_Witness ==
  /\ max_calls > 0
  /\ \E t \in Threads :
       /\ done[t].first_out = "err429"
       /\ done[t].attempts >= 2
       /\ done[t].result = "ok"

\* C13 as stated: when the validator rejects the candidate of post n the
\* operator is offered the repair, and when the operator saves a valid
\* record r the entry of n is r with num = n, not the rejected candidate.
C13_RepairedPersisted ==
  (last.num # 0 /\ last.cause = "ValidationError") =>
    /\ last.prompted
    /\ ((/\ last.edit = "save"
         /\ Parses(last.edited)
         /\ validate(loads(last.edited))
         /\ pc # "store") =>
          /\ last.fate = "committed"
          /\ IsStored(last.num, loads(last.edited))
          /\ ~IsStored(last.num, loads(last.text)))

\* C14 as stated: every entry keyed by n holds a record with num = n, and
\* the entry written for the latest post holds the fields produced for
\* that post, by the model or by its repair.
C14_EntriesBelong ==
  /\ \A n \in DOMAIN store :
       /\ Parses(store[n])
       /\ "num" \in DOMAIN loads(store[n])
       /\ loads(store[n]).num = n
  /\ (last.fate = "committed" =>
        \E src \in {last.text, last.edited} :
          Parses(src) /\ IsStored(last.num, loads(src)))

\* C15 as stated: after a parse failure or a schema rejection the operator
\* can open the repair, and cancelling it drops that post only: the run is
\* not halted.
C15_AbandonContinues ==
  (last.num # 0 /\ last.cause \in {"JSONDecodeError", "ValidationError"}) =>
    /\ last.prompted
    /\ exc = "none"
    /\ (last.edit = "cancel" => last.fate = "dropped" /\ pc = "next")

\* C17 as stated: only parse failures and schema rejections reach the
\* repair path; any other exception halts the run, and after a halt the
\* store has no entry for the post or a complete record, earlier entries
\* being unchanged.
C17_HaltLeavesNoPartial ==
  /\ (last.prompted => last.cause \in {"JSONDecodeError", "ValidationError"})
  /\ (last.num # 0 /\ last.cause = "APIError" => pc = "halted")
  /\ (pc = "halted" =>
        /\ last.num \in DOMAIN store => HoldsValidated(store[last.num], last.num)
        /\ \A n \in DOMAIN startStore :
             n \in DOMAIN store /\ store[n] = startStore[n])

\* C16: with limiting on, an execution that fails with the rate-limit
\* indicator is followed by a wait of 1 second and another execution,
\* however often it happens; any other error reaches the caller from the
\* first execution; and once run() has consumed the response for a post
\* (whatever parsing and validation made of it) the model is not called
\* again for that post in the run.
C16_RetryPolicy ==
  /\ [](/\ done[1].result # "none" =>
            /\ done[1].result \in {"ok", "errOther"}
            /\ (done[1].first_out # "err429" =>
                  done[1].attempts = 1 /\ done[1].result = done[1].first_out)
            /\ (done[1].first_out = "err429" => done[1].attempts >= 2)
        /\ (tpc[1] # "idle" \/ done[1].result # "none") =>
            pc = "try" /\ post \notin classified
        /\ \A i \in DOMAIN ready : ready[i] \notin classified)
  /\ [][ /\ (tpc[1] = "running" /\ tpc'[1] = "backoff") =>
             wake'[1] = clock + 1
         /\ (tpc[1] = "backoff" /\ tpc'[1] # "backoff") =>
             tpc'[1] = "invoke" /\ clock >= wake[1]
         /\ (pc = "try" /\ pc' # "try") =>
             (post \in classified' /\ tpc'[1] = "idle" /\ done'[1].result = "none")
       ]_vars

\* The call for a later post of a run failed twice with the indicator and
\* then returned.
C16_Witness ==
  /\ pc = "try"
  /\ classified # {}
  /\ done[1].first_out = "err429"
  /\ done[1].attempts >= 3
  /\ done[1].result = "ok"

\* The threads that are inside the with block of lines 166-183.
InBookkeeping == {t \in Threads : tpc[t] \in {"locked", "sleeping", "append"}}

\* C18: at most one caller is between taking the lock and recording its
\* timestamp, that caller is the holder of the lock, and no caller holds
\* the lock while its underlying call is pending, executing or backing off.
C18_BookkeepingSerialized ==
  /\ Cardinality(InBookkeeping) <= 1
  /\ \A t \in Threads : (t \in InBookkeeping) <=> (lock = t)
  /\ lock \in Threads \cup {0}
  /\ \A t \in Threads :
       tpc[t] \in {"invoke", "running", "backoff"} => lock # t

\* One caller's underlying call is executing while the other caller sleeps
\* for a window slot, holding the lock.
C18_Witness ==
  /\ max_calls > 0
  /\ \E t, u \in Threads :
       /\ tpc[t] = "running"
       /\ tpc[u] = "sleeping"
       /\ lock = u

RECURSIVE SumTo(_, _)
SumTo(f, n) == IF n < 0 THEN 0 ELSE f[n] + SumTo(f, n - 1)

\* C20: with limiting on, the timestamps appended so far are one per call
\* that has left the with block; a timestamp is appended only by a call
\* that has not executed func yet, while it holds the lock; and a call that
\* has started executing func changes neither the ledger nor the lock and
\* never goes back to the limiting.
C20_OneTimestampPerCall ==
  /\ [](max_calls > 0 =>
         /\ SumTo(starts, MaxTime) =
              ncalls[1] + ncalls[2]
                - Cardinality({t \in Threads :
                     tpc[t] \in {"acquire", "locked", "sleeping", "append"}})
         /\ \A t \in Threads :
              tpc[t] \in {"acquire", "locked", "sleeping", "append"} =>
                cur[t].attempts = 0)
  /\ [][max_calls > 0 =>
         /\ Len(calls') > Len(calls) =>
              \E t \in Threads :
                /\ tpc[t] = "append" /\ tpc'[t] = "invoke"
                /\ lock = t
                /\ cur[t].attempts = 0
                /\ calls' = Append(calls, clock)
         /\ \A t \in Threads :
              (tpc[t] \in {"running", "backoff"} /\ tpc'[t] # tpc[t]) =>
                /\ calls' = calls
                /\ lock' = lock
                /\ tpc'[t] \in {"idle", "backoff", "invoke"}
       ]_vars

\* A single call was executed three times and the ledger holds its one
\* timestamp.
C20_Witness ==
  /\ max_calls > 0
  /\ ncalls[1] + ncalls[2] = 1
  /\ \E t \in Threads : done[t].attempts >= 3
  /\ Len(calls) = 1

====
